---- MODULE Spec2Model ----
(***************************************************************************)
(* Model of the art-backend expansion cache: the expand_subject handler    *)
(* (controllers/artwork_expand.py) running as concurrent requests over the *)
(* artwork repository (repositories/artwork_repository.py).                *)
(*                                                                         *)
(* Strings are sequences of characters, so that strip() and the cache-key  *)
(* normalisation are computed rather than assumed.  Optional[T] values     *)
(* returned by the repository are sequences of length 0 (None) or 1.       *)
(*                                                                         *)
(* Rows are records read by key, as the ArtworkRepository protocol         *)
(* (repositories/base.py) and every controller use them.  The SQL of       *)
(* repositories/queries/artwork_queries.sql is not part of the sources:    *)
(* the query_* operators and subject_hash follow the written design (the   *)
(* key is the trimmed, case-folded subject combined with the parent).      *)
(* Expansion ids are 1, 2, ... in insertion order and stand for the uuid4  *)
(* strings; a client can name an existing id or one never issued.          *)
(*                                                                         *)
(* Specifications: Spec (concurrent expand_subject requests), SpecExpand,  *)
(* SpecRows, SpecClient and SpecHttp (one client, every call a step that   *)
(* may fail), SpecTree and SpecBuildTree (tree retrieval), SpecAuth (the   *)
(* authentication middleware) and SpecPool (the connection pool).          *)
(***************************************************************************)
EXTENDS Naturals, Sequences, FiniteSets, TLC

\* ------------------------------------------------------------------ bounds
MaxRequests == 2
MaxExpansions == 2
MaxArtworks == 2

\* Optional[str] = None for parent_expansion_id; expansion ids are 1, 2, ...
NULL == 0

Procs == 1..MaxRequests

\* ------------------------------------------------------------------ strings
Whitespace == {" "}

RECURSIVE lstrip(_)
lstrip(s) ==
    IF s = <<>> THEN s
    ELSE IF Head(s) \in Whitespace THEN lstrip(Tail(s)) ELSE s

RECURSIVE rstrip(_)
rstrip(s) ==
    IF s = <<>> THEN s
    ELSE IF s[Len(s)] \in Whitespace THEN rstrip(SubSeq(s, 1, Len(s) - 1)) ELSE s

\* str.strip()
strip(s) == rstrip(lstrip(s))

lower_char(c) == CASE c = "A" -> "a" [] c = "B" -> "b" [] OTHER -> c

\* str.lower()
lower(s) == [i \in 1..Len(s) |-> lower_char(s[i])]

\* str(uuid.uuid4()) for the n-th artwork: a fresh, non-blank string
uuid4(n) == [i \in 1..n |-> "u"]

\* ------------------------------------------------------------------ inputs
\* subject texts a client may send
ValidSubjects == { <<"a">>, <<" ", "A", " ">> }
BlankStrings == { <<>>, <<" ">> }

\* artwork ids a client may send: blank ones and every id the server can issue
ArtworkIds == { uuid4(n) : n \in 1..MaxArtworks }

\* an expansion id no save ever issues
UnknownExpansionId == MaxExpansions + 1

\* what the AI service may return for an expansion / an explanation
ExpansionBodies == { "<expansion/>" }
ExplanationBodies == { "<artwork/>" }

\* authenticated_user: "anonymous" stands for None
Users == { "anonymous", "u1" }

VARIABLES
    artworks,            \* table artworks: artwork_id -> row
    user_profiles,       \* table user_profiles: set of user ids
    user_artworks,       \* table user_saved_artworks: set of <<user, artwork_id>>
    subject_expansions,  \* table subject_expansions, rows in insertion order
    req,                 \* the expand_subject requests in flight
    call,                \* the request of the sequential client, step by step
    _postgres_pool       \* the module-level connection pool: NULL or a pool

vars == <<artworks, user_profiles, user_artworks, subject_expansions, req, call, _postgres_pool>>

\* ------------------------------------------------------------------ queries
\* subject_hash: a deterministic key of the normalised subject and the parent
normalize_subject(subject) == lower(strip(subject))

subject_hash(subject, parent_expansion_id) ==
    <<normalize_subject(subject), parent_expansion_id>>

\* queries.get_cached_subject_expansion
query_get_cached_subject_expansion(rows, artwork_id, subject, parent_expansion_id) ==
    SelectSeq(rows, LAMBDA r :
        /\ r.artwork_id = artwork_id
        /\ r.subject_hash = subject_hash(subject, parent_expansion_id))

\* queries.get_subject_expansion
query_get_subject_expansion(rows, expansion_id) ==
    SelectSeq(rows, LAMBDA r : r.expansion_id = expansion_id)

\* queries.save_subject_expansion: the database derives subject_hash
query_save_subject_expansion(rows, expansion_id, artwork_id, subject, expansion_xml, parent_expansion_id) ==
    Append(rows, [expansion_id |-> expansion_id,
                  artwork_id |-> artwork_id,
                  subject |-> subject,
                  subject_hash |-> subject_hash(subject, parent_expansion_id),
                  expansion_xml |-> expansion_xml,
                  parent_expansion_id |-> parent_expansion_id])

\* ------------------------------------------------------------------ repository
first_or_none(results) == IF Len(results) = 0 THEN <<>> ELSE <<results[1]>>

\* mutant: the parent is not handed to the query (its default, None, is used)
get_cached_subject_expansion_no_parent(rows, artwork_id, subject, parent_expansion_id) ==
    first_or_none(query_get_cached_subject_expansion(rows, artwork_id, subject, NULL))

\* mutant: the rows found are compared with the subject as written
get_cached_subject_expansion_literal(rows, artwork_id, subject, parent_expansion_id) ==
    first_or_none(
        SelectSeq(
            query_get_cached_subject_expansion(rows, artwork_id, subject, parent_expansion_id),
            LAMBDA r : r.subject = subject))

get_cached_subject_expansion(rows, artwork_id, subject, parent_expansion_id) ==
    first_or_none(
        query_get_cached_subject_expansion(rows, artwork_id, subject, parent_expansion_id))

get_subject_expansion(rows, expansion_id) ==
    first_or_none(query_get_subject_expansion(rows, expansion_id))

\* mutant: an unknown artwork is answered with an empty record
get_artwork_explanation_default(table, artwork_id) ==
    IF artwork_id \in DOMAIN table
    THEN <<table[artwork_id]>>
    ELSE <<[artwork_id |-> artwork_id, explanation_xml |-> "",
            image_path |-> <<>>, creator_user_id |-> "anonymous"]>>

get_artwork_explanation(table, artwork_id) ==
    IF artwork_id \in DOMAIN table THEN <<table[artwork_id]>> ELSE <<>>

\* get_expansion: the record as a 200 response, or 404 when there is none
get_expansion(rows, expansion_id) ==
    LET expansion_record == get_subject_expansion(rows, expansion_id)
    IN  IF expansion_record = <<>>
        THEN [status |-> "404", content |-> <<>>]
        ELSE [status |-> "200", content |-> expansion_record]

\* mutant: an existing row with the same artwork and key is returned instead
\* of inserting a second one
save_subject_expansion_dedup(rows, artwork_id, subject, expansion_xml, parent_expansion_id) ==
    LET existing == query_get_cached_subject_expansion(rows, artwork_id, subject,
                                                      parent_expansion_id)
        expansion_id == Len(rows) + 1
        inserted == query_save_subject_expansion(rows, expansion_id, artwork_id,
                        subject, expansion_xml, parent_expansion_id)
    IN  IF existing # <<>>
        THEN [rows |-> rows, saved_record |-> <<existing[1]>>]
        ELSE [rows |-> inserted,
              saved_record |-> get_subject_expansion(inserted, expansion_id)]

\* mutant: the parent is not handed to the insert
save_subject_expansion_drop_parent(rows, artwork_id, subject, expansion_xml, parent_expansion_id) ==
    LET expansion_id == Len(rows) + 1
        inserted == query_save_subject_expansion(rows, expansion_id, artwork_id,
                        subject, expansion_xml, NULL)
    IN  [rows |-> inserted,
         saved_record |-> get_subject_expansion(inserted, expansion_id)]

\* save_subject_expansion: a fresh id, the insert, the re-read of the row
save_subject_expansion(rows, artwork_id, subject, expansion_xml, parent_expansion_id) ==
    LET expansion_id == Len(rows) + 1
        inserted == query_save_subject_expansion(rows, expansion_id, artwork_id,
                        subject, expansion_xml, parent_expansion_id)
    IN  [rows |-> inserted,
         saved_record |-> get_subject_expansion(inserted, expansion_id)]

\* ------------------------------------------------------------------ requests
IdleRequest ==
    [pc |-> "idle", artwork_id |-> <<>>, subject |-> <<>>,
     parent_expansion_id |-> NULL, explanation_xml |-> "", expansion_xml |-> "",
     expansion_id |-> NULL, status |-> "", location |-> NULL,
     ai_calls |-> 0, repo_calls |-> 0, cache_hit |-> FALSE,
     isolated |-> FALSE]

\* the sequential client between two requests
IdleCall ==
    [op |-> "", pc |-> "idle", user |-> "anonymous", artwork_id |-> <<>>,
     artwork_name |-> <<>>, subject |-> <<>>, parent_expansion_id |-> NULL,
     explanation_xml |-> "", expansion_xml |-> "", expansion_id |-> NULL,
     image_path |-> <<>>, returned |-> <<>>, status |-> "", location |-> NULL,
     content |-> <<>>, trace |-> <<>>, before |-> <<>>,
     auth_header |-> <<>>, scope_user |-> <<>>, response |-> <<>>]

Init ==
    /\ artworks = <<>>
    /\ user_profiles = {}
    /\ user_artworks = {}
    /\ subject_expansions = <<>>
    /\ req = [p \in Procs |-> IdleRequest]
    /\ call = IdleCall
    /\ _postgres_pool = NULL

Finish(r, status, location) ==
    [r EXCEPT !.pc = "done", !.status = status, !.location = location,
              !.isolated = (@ /\ status = "303")]

\* mutant: blank input is detected without strip()
Receive_no_strip(p, artwork_id, subject, parent_expansion_id) ==
    /\ req[p].pc = "idle"
    /\ LET r == [req[p] EXCEPT !.artwork_id = artwork_id, !.subject = subject,
                               !.parent_expansion_id = parent_expansion_id]
       IN  IF subject = <<>>
           THEN req' = [req EXCEPT ![p] = Finish(r, "ValueError: Subject cannot be empty", NULL)]
           ELSE IF artwork_id = <<>>
           THEN req' = [req EXCEPT ![p] = Finish(r, "ValueError: Artwork ID cannot be empty", NULL)]
           ELSE req' = [req EXCEPT ![p] = [r EXCEPT !.pc = "get_cached"]]
    /\ UNCHANGED <<artworks, user_profiles, user_artworks, subject_expansions, call, _postgres_pool>>

\* expand_subject, lines 48-65: input validation, then the cache query is issued
Receive(p, artwork_id, subject, parent_expansion_id) ==
    /\ req[p].pc = "idle"
    /\ LET r == [req[p] EXCEPT !.artwork_id = artwork_id, !.subject = subject,
                               !.parent_expansion_id = parent_expansion_id]
       IN  IF subject = <<>> \/ strip(subject) = <<>>
           THEN req' = [req EXCEPT ![p] = Finish(r, "ValueError: Subject cannot be empty", NULL)]
           ELSE IF artwork_id = <<>> \/ strip(artwork_id) = <<>>
           THEN req' = [req EXCEPT ![p] = Finish(r, "ValueError: Artwork ID cannot be empty", NULL)]
           ELSE req' = [req EXCEPT ![p] = [r EXCEPT !.pc = "get_cached"]]
    /\ UNCHANGED <<artworks, user_profiles, user_artworks, subject_expansions, call, _postgres_pool>>

\* mutant: the cached record is never used
is_cached_never(cached_expansion) == FALSE

\* expand_subject, line 67: cached_expansion is not None
is_cached(cached_expansion) == cached_expansion # <<>>

\* mutant: any stored expansion counts as the cached one
CacheLookup_unkeyed(p) ==
    /\ req[p].pc = "get_cached"
    /\ LET r == [req[p] EXCEPT !.repo_calls = @ + 1, !.isolated = TRUE]
       IN  IF subject_expansions # <<>>
           THEN req' = [req EXCEPT ![p] =
                    Finish([r EXCEPT !.cache_hit = TRUE], "303",
                           subject_expansions[1].expansion_id)]
           ELSE req' = [req EXCEPT ![p] = [r EXCEPT !.pc = "get_artwork"]]
    /\ UNCHANGED <<artworks, user_profiles, user_artworks, subject_expansions, call, _postgres_pool>>

\* expand_subject, lines 61-69 and 92-98: the cache lookup answers
CacheLookup(p) ==
    /\ req[p].pc = "get_cached"
    /\ LET r == [req[p] EXCEPT !.repo_calls = @ + 1, !.isolated = TRUE]
           cached_expansion ==
               get_cached_subject_expansion(subject_expansions, r.artwork_id,
                                            r.subject, r.parent_expansion_id)
       IN  IF is_cached(cached_expansion)
           THEN req' = [req EXCEPT ![p] =
                    Finish([r EXCEPT !.cache_hit = TRUE], "303",
                           cached_expansion[1].expansion_id)]
           ELSE req' = [req EXCEPT ![p] = [r EXCEPT !.pc = "get_artwork"]]
    /\ UNCHANGED <<artworks, user_profiles, user_artworks, subject_expansions, call, _postgres_pool>>

\* mutant: the AI service is called whether or not the artwork was found
GetArtwork_unchecked(p) ==
    /\ req[p].pc = "get_artwork"
    /\ LET r == [req[p] EXCEPT !.repo_calls = @ + 1]
           artwork_record == get_artwork_explanation(artworks, r.artwork_id)
       IN  req' = [req EXCEPT ![p] =
                    [r EXCEPT !.pc = "ai",
                              !.explanation_xml =
                                  IF artwork_record = <<>> THEN ""
                                  ELSE artwork_record[1].explanation_xml]]
    /\ UNCHANGED <<artworks, user_profiles, user_artworks, subject_expansions, call, _postgres_pool>>

\* expand_subject, lines 71-74: the artwork read answers
GetArtwork(p) ==
    /\ req[p].pc = "get_artwork"
    /\ LET r == [req[p] EXCEPT !.repo_calls = @ + 1]
           artwork_record == get_artwork_explanation(artworks, r.artwork_id)
       IN  IF artwork_record = <<>>
           THEN req' = [req EXCEPT ![p] = Finish(r, "ValueError: Artwork not found", NULL)]
           ELSE req' = [req EXCEPT ![p] =
                    [r EXCEPT !.pc = "ai",
                              !.explanation_xml = artwork_record[1].explanation_xml]]
    /\ UNCHANGED <<artworks, user_profiles, user_artworks, subject_expansions, call, _postgres_pool>>

\* expand_subject, lines 76-81: the AI service answers or fails
AiExpand(p) ==
    /\ req[p].pc = "ai"
    /\ LET r == [req[p] EXCEPT !.ai_calls = @ + 1]
       IN  \/ \E xml \in ExpansionBodies :
                req' = [req EXCEPT ![p] = [r EXCEPT !.pc = "save", !.expansion_xml = xml]]
           \/ req' = [req EXCEPT ![p] = Finish(r, "ExternalServiceError", NULL)]
    /\ UNCHANGED <<artworks, user_profiles, user_artworks, subject_expansions, call, _postgres_pool>>

\* expand_subject, lines 83-98: save_subject_expansion answers (the database
\* may refuse the insert: PersistenceError).  isolated records, for every
\* other request, that the table changed after its cache lookup.
Save(p) ==
    /\ req[p].pc = "save"
    /\ LET r == [req[p] EXCEPT !.repo_calls = @ + 1]
           saved == save_subject_expansion(subject_expansions, r.artwork_id,
                        r.subject, r.expansion_xml, r.parent_expansion_id)
       IN  \/ /\ Len(saved.rows) <= MaxExpansions
              /\ subject_expansions' = saved.rows
              /\ req' = [q \in Procs |->
                           IF q # p
                           THEN [req[q] EXCEPT !.isolated =
                                    (@ /\ saved.rows = subject_expansions)]
                           ELSE IF saved.saved_record = <<>>
                           THEN Finish(r, "RuntimeError: Failed to retrieve saved expansion", NULL)
                           ELSE Finish([r EXCEPT !.expansion_id =
                                           saved.saved_record[1].expansion_id],
                                       "303", saved.saved_record[1].expansion_id)]
           \/ /\ req' = [req EXCEPT ![p] = Finish(r, "PersistenceError", NULL)]
              /\ UNCHANGED subject_expansions
    /\ UNCHANGED <<artworks, user_profiles, user_artworks, call, _postgres_pool>>

\* the response has been delivered; the slot serves the next request
Respond(p) ==
    /\ req[p].pc = "done"
    /\ req' = [req EXCEPT ![p] = IdleRequest]
    /\ UNCHANGED <<artworks, user_profiles, user_artworks, subject_expansions, call, _postgres_pool>>

\* explain_artwork_from_image: validation, upload or the AI call may fail
\* (nothing is written); otherwise the artwork row, and for an authenticated
\* user the profile and the collection row, are written.
explain_artwork_from_image(user, ok) ==
    /\ Cardinality(DOMAIN artworks) < MaxArtworks
    /\ LET artwork_id == uuid4(Cardinality(DOMAIN artworks) + 1)
           creator_user_id == user
       IN  IF ~ok
           THEN UNCHANGED <<artworks, user_profiles, user_artworks>>
           ELSE \E explanation_xml \in ExplanationBodies :
                /\ user_profiles' = IF creator_user_id # "anonymous"
                                    THEN user_profiles \cup {creator_user_id}
                                    ELSE user_profiles
                /\ artworks' = [a \in DOMAIN artworks \cup {artwork_id} |->
                                  IF a = artwork_id
                                  THEN [artwork_id |-> artwork_id,
                                        explanation_xml |-> explanation_xml,
                                        image_path |-> artwork_id,
                                        creator_user_id |-> creator_user_id]
                                  ELSE artworks[a]]
                /\ user_artworks' = IF creator_user_id # "anonymous"
                                    THEN user_artworks \cup {<<creator_user_id, artwork_id>>}
                                    ELSE user_artworks
    /\ UNCHANGED <<subject_expansions, req, call, _postgres_pool>>

\* parent ids a client may send: none, any id it has seen, or one never issued
ParentInputs == {NULL, UnknownExpansionId} \cup (1..Len(subject_expansions))

\* request bodies: every well-formed one, and blank subjects / artwork ids
RequestInputs ==
    { [artwork_id |-> a, subject |-> s, parent_expansion_id |-> par] :
        a \in ArtworkIds, s \in ValidSubjects, par \in ParentInputs }
    \cup { [artwork_id |-> uuid4(1), subject |-> s, parent_expansion_id |-> NULL] :
              s \in BlankStrings }
    \cup { [artwork_id |-> a, subject |-> s, parent_expansion_id |-> NULL] :
              a \in BlankStrings, s \in {<<>>, <<"a">>} }

\* The expansion cache never reads an artwork's creator, so the artworks of
\* this specification are the anonymous uploads.
Next ==
    \/ \E p \in Procs, d \in RequestInputs :
          Receive(p, d.artwork_id, d.subject, d.parent_expansion_id)
    \/ \E p \in Procs : CacheLookup(p)
    \/ \E p \in Procs : GetArtwork(p)
    \/ \E p \in Procs : AiExpand(p)
    \/ \E p \in Procs : Save(p)
    \/ \E p \in Procs : Respond(p)
    \/ \E ok \in BOOLEAN : explain_artwork_from_image("anonymous", ok)

Spec == Init /\ [][Next]_vars

\* ------------------------------------------------------------------
\* One client, one request at a time, every store and AI call a step of its
\* own that may fail.  Each call is logged with its arguments and outcome.
Log(c, fn, args, outcome) ==
    [c EXCEPT !.trace = Append(@, [fn |-> fn, args |-> args, outcome |-> outcome])]

\* the request ends: a response (status 303 and a location) or a raised error
End(c, status, location) ==
    [c EXCEPT !.pc = "done", !.status = status, !.location = location]

\* the four tables, as a request finds them when it starts
Tables ==
    [artworks |-> artworks, user_profiles |-> user_profiles,
     user_artworks |-> user_artworks, subject_expansions |-> subject_expansions]

\* the number of calls of fn the request has made
Calls(fn) == Len(SelectSeq(call.trace, LAMBDA e : e.fn = fn))

\* what the AI service may return for an expansion: markup or anything else
AiExpansionBodies == { "<expansion/>", "not markup" }

\* the explanation stored with the n-th artwork
explanation_of(n) == <<"<artwork>", n, "</artwork>">>

\* the artworks table after n anonymous uploads
StoredArtworks(n) ==
    [a \in { uuid4(i) : i \in 1..n } |->
        [artwork_id |-> a, explanation_xml |-> explanation_of(Len(a)),
         image_path |-> a, creator_user_id |-> "anonymous"]]

InitExpand ==
    /\ \E n \in 0..MaxArtworks : artworks = StoredArtworks(n)
    /\ user_profiles = {}
    /\ user_artworks = {}
    /\ subject_expansions = <<>>
    /\ req = [p \in Procs |-> IdleRequest]
    /\ call = IdleCall
    /\ _postgres_pool = NULL

\* expand_subject, lines 53-58: input validation
expand_subject_validate(artwork_id, subject, parent_expansion_id) ==
    /\ call.pc = "idle"
    /\ LET c == [IdleCall EXCEPT !.op = "expand_subject",
                                 !.artwork_id = artwork_id, !.subject = subject,
                                 !.parent_expansion_id = parent_expansion_id,
                                 !.before = Tables]
       IN  IF subject = <<>> \/ strip(subject) = <<>>
           THEN call' = End(c, "ValueError: Subject cannot be empty", NULL)
           ELSE IF artwork_id = <<>> \/ strip(artwork_id) = <<>>
           THEN call' = End(c, "ValueError: Artwork ID cannot be empty", NULL)
           ELSE call' = [c EXCEPT !.pc = "get_cached"]
    /\ UNCHANGED <<artworks, user_profiles, user_artworks, subject_expansions, req, _postgres_pool>>

\* expand_subject, lines 60-69 and 92-98: the cache lookup; a hit redirects
expand_subject_get_cached ==
    /\ call.op = "expand_subject" /\ call.pc = "get_cached"
    /\ LET args == <<call.artwork_id, call.subject, call.parent_expansion_id>>
           cached_expansion ==
               get_cached_subject_expansion(subject_expansions, call.artwork_id,
                                            call.subject, call.parent_expansion_id)
       IN  \/ call' = End(Log(call, "get_cached_subject_expansion", args, "raise"),
                          "PersistenceError", NULL)
           \/ IF is_cached(cached_expansion)
              THEN call' = End([Log(call, "get_cached_subject_expansion", args, "row")
                                  EXCEPT !.returned = cached_expansion],
                               "303", cached_expansion[1].expansion_id)
              ELSE call' = [Log(call, "get_cached_subject_expansion", args, "none")
                              EXCEPT !.pc = "get_artwork"]
    /\ UNCHANGED <<artworks, user_profiles, user_artworks, subject_expansions, req, _postgres_pool>>

\* expand_subject, lines 71-74: the artwork read
expand_subject_get_artwork ==
    /\ call.op = "expand_subject" /\ call.pc = "get_artwork"
    /\ LET args == <<call.artwork_id>>
           artwork_record == get_artwork_explanation(artworks, call.artwork_id)
       IN  \/ call' = End(Log(call, "get_artwork_explanation", args, "raise"),
                          "PersistenceError", NULL)
           \/ IF artwork_record = <<>>
              THEN call' = End(Log(call, "get_artwork_explanation", args, "none"),
                               "ValueError: Artwork not found", NULL)
              ELSE call' = [Log(call, "get_artwork_explanation", args, "row")
                              EXCEPT !.pc = "ai",
                                     !.explanation_xml = artwork_record[1].explanation_xml]
    /\ UNCHANGED <<artworks, user_profiles, user_artworks, subject_expansions, req, _postgres_pool>>

\* mutant: a failed AI call is tried a second time
expand_subject_ai_retry ==
    /\ call.op = "expand_subject" /\ call.pc = "ai"
    /\ LET args == <<call.artwork_id, call.explanation_xml, call.subject>>
       IN  \/ \E xml \in AiExpansionBodies :
                call' = [Log(call, "expand_subject", args, xml)
                           EXCEPT !.pc = "insert", !.expansion_xml = xml]
           \/ IF Calls("expand_subject") = 0
              THEN call' = Log(call, "expand_subject", args, "raise")
              ELSE call' = End(Log(call, "expand_subject", args, "raise"),
                               "ExternalServiceError", NULL)
    /\ UNCHANGED <<artworks, user_profiles, user_artworks, subject_expansions, req, _postgres_pool>>

\* expand_subject, lines 76-81, and GeminiService.expand_subject: one call of
\* the AI service, whose result or error is passed on
expand_subject_ai ==
    /\ call.op = "expand_subject" /\ call.pc = "ai"
    /\ LET args == <<call.artwork_id, call.explanation_xml, call.subject>>
       IN  \/ \E xml \in AiExpansionBodies :
                call' = [Log(call, "expand_subject", args, xml)
                           EXCEPT !.pc = "insert", !.expansion_xml = xml]
           \/ call' = End(Log(call, "expand_subject", args, "raise"),
                          "ExternalServiceError", NULL)
    /\ UNCHANGED <<artworks, user_profiles, user_artworks, subject_expansions, req, _postgres_pool>>

\* mutant: a body that is not markup is replaced by an empty expansion
save_subject_expansion_insert_validated ==
    /\ call.op = "expand_subject" /\ call.pc = "insert"
    /\ LET expansion_id == Len(subject_expansions) + 1
           expansion_xml == IF call.expansion_xml = "not markup"
                            THEN "<expansion/>" ELSE call.expansion_xml
           args == <<expansion_id, call.artwork_id, call.subject,
                     expansion_xml, call.parent_expansion_id>>
       IN  \/ /\ Len(subject_expansions) < MaxExpansions
              /\ subject_expansions' =
                    query_save_subject_expansion(subject_expansions, expansion_id,
                        call.artwork_id, call.subject, expansion_xml,
                        call.parent_expansion_id)
              /\ call' = [Log(call, "save_subject_expansion", args, "ok")
                            EXCEPT !.pc = "reread", !.expansion_id = expansion_id]
           \/ /\ call' = End(Log(call, "save_subject_expansion", args, "raise"),
                             "PersistenceError", NULL)
              /\ UNCHANGED subject_expansions
    /\ UNCHANGED <<artworks, user_profiles, user_artworks, req, _postgres_pool>>

\* mutant: the id of the newest row is used again
save_subject_expansion_insert_stale_id ==
    /\ call.op = "expand_subject" /\ call.pc = "insert"
    /\ LET expansion_id == IF subject_expansions = <<>> THEN 1 ELSE Len(subject_expansions)
           args == <<expansion_id, call.artwork_id, call.subject,
                     call.expansion_xml, call.parent_expansion_id>>
       IN  \/ /\ Len(subject_expansions) < MaxExpansions
              /\ subject_expansions' =
                    query_save_subject_expansion(subject_expansions, expansion_id,
                        call.artwork_id, call.subject, call.expansion_xml,
                        call.parent_expansion_id)
              /\ call' = [Log(call, "save_subject_expansion", args, "ok")
                            EXCEPT !.pc = "reread", !.expansion_id = expansion_id]
           \/ /\ call' = End(Log(call, "save_subject_expansion", args, "raise"),
                             "PersistenceError", NULL)
              /\ UNCHANGED subject_expansions
    /\ UNCHANGED <<artworks, user_profiles, user_artworks, req, _postgres_pool>>

\* save_subject_expansion, lines 167-179: a fresh id and the insert, which
\* the database may refuse
save_subject_expansion_insert ==
    /\ call.op = "expand_subject" /\ call.pc = "insert"
    /\ LET expansion_id == Len(subject_expansions) + 1
           args == <<expansion_id, call.artwork_id, call.subject,
                     call.expansion_xml, call.parent_expansion_id>>
       IN  \/ /\ Len(subject_expansions) < MaxExpansions
              /\ subject_expansions' =
                    query_save_subject_expansion(subject_expansions, expansion_id,
                        call.artwork_id, call.subject, call.expansion_xml,
                        call.parent_expansion_id)
              /\ call' = [Log(call, "save_subject_expansion", args, "ok")
                            EXCEPT !.pc = "reread", !.expansion_id = expansion_id]
           \/ /\ call' = End(Log(call, "save_subject_expansion", args, "raise"),
                             "PersistenceError", NULL)
              /\ UNCHANGED subject_expansions
    /\ UNCHANGED <<artworks, user_profiles, user_artworks, req, _postgres_pool>>

\* the record save_subject_expansion would build from its own arguments
local_record ==
    [expansion_id |-> call.expansion_id, artwork_id |-> call.artwork_id,
     subject |-> call.subject, subject_hash |-> <<>>,
     expansion_xml |-> call.expansion_xml,
     parent_expansion_id |-> call.parent_expansion_id]

\* mutant: the record is built from the arguments instead of the stored row
save_subject_expansion_reread_local(visible) ==
    /\ call.op = "expand_subject" /\ call.pc = "reread"
    /\ LET args == <<call.expansion_id>>
           saved_record == IF visible
                           THEN get_subject_expansion(subject_expansions, call.expansion_id)
                           ELSE <<>>
       IN  \/ call' = End(Log(call, "get_subject_expansion", args, "raise"),
                          "PersistenceError", NULL)
           \/ IF saved_record = <<>>
              THEN call' = End(Log(call, "get_subject_expansion", args, "none"),
                               "RuntimeError: Failed to retrieve saved expansion", NULL)
              ELSE call' = End([Log(call, "get_subject_expansion", args, "row")
                                  EXCEPT !.returned = <<local_record>>],
                               "303", call.expansion_id)
    /\ UNCHANGED <<artworks, user_profiles, user_artworks, subject_expansions, req, _postgres_pool>>

\* mutant: when the row is not found the read is tried again
save_subject_expansion_reread_retry(visible) ==
    /\ call.op = "expand_subject" /\ call.pc = "reread"
    /\ LET args == <<call.expansion_id>>
           saved_record == IF visible \/ Calls("get_subject_expansion") > 0
                           THEN get_subject_expansion(subject_expansions, call.expansion_id)
                           ELSE <<>>
       IN  \/ call' = End(Log(call, "get_subject_expansion", args, "raise"),
                          "PersistenceError", NULL)
           \/ IF saved_record = <<>>
              THEN call' = Log(call, "get_subject_expansion", args, "none")
              ELSE call' = End([Log(call, "get_subject_expansion", args, "row")
                                  EXCEPT !.returned = saved_record],
                               "303", saved_record[1].expansion_id)
    /\ UNCHANGED <<artworks, user_profiles, user_artworks, subject_expansions, req, _postgres_pool>>

\* save_subject_expansion, lines 181-186, and expand_subject, lines 92-98: the
\* re-read of the inserted row.  The read may raise; visible = FALSE is a
\* store that does not show the row just written.
save_subject_expansion_reread(visible) ==
    /\ call.op = "expand_subject" /\ call.pc = "reread"
    /\ LET args == <<call.expansion_id>>
           saved_record == IF visible
                           THEN get_subject_expansion(subject_expansions, call.expansion_id)
                           ELSE <<>>
       IN  \/ call' = End(Log(call, "get_subject_expansion", args, "raise"),
                          "PersistenceError", NULL)
           \/ IF saved_record = <<>>
              THEN call' = End(Log(call, "get_subject_expansion", args, "none"),
                               "RuntimeError: Failed to retrieve saved expansion", NULL)
              ELSE call' = End([Log(call, "get_subject_expansion", args, "row")
                                  EXCEPT !.returned = saved_record],
                               "303", saved_record[1].expansion_id)
    /\ UNCHANGED <<artworks, user_profiles, user_artworks, subject_expansions, req, _postgres_pool>>

\* the response or the error has reached the client
ClientReturn ==
    /\ call.pc = "done"
    /\ call' = IdleCall
    /\ UNCHANGED <<artworks, user_profiles, user_artworks, subject_expansions, req, _postgres_pool>>

NextExpand ==
    \/ \E d \in RequestInputs :
          expand_subject_validate(d.artwork_id, d.subject, d.parent_expansion_id)
    \/ expand_subject_get_cached
    \/ expand_subject_get_artwork
    \/ expand_subject_ai
    \/ save_subject_expansion_insert
    \/ \E visible \in BOOLEAN : save_subject_expansion_reread(visible)
    \/ ClientReturn

SpecExpand == InitExpand /\ [][NextExpand]_vars

\* ------------------------------------------------------------------
\* GET /artwork/{artwork_id}/expansions over a table of up to MaxTreeRows rows
MaxTreeRows == 5

\* queries.get_all_expansions_with_hierarchy: the rows of the artwork
query_get_all_expansions_with_hierarchy(rows, artwork_id) ==
    SelectSeq(rows, LAMBDA r : r.artwork_id = artwork_id)

get_all_expansions_with_hierarchy(rows, artwork_id) ==
    query_get_all_expansions_with_hierarchy(rows, artwork_id)

\* mutant: the children of a node are not looked for
build_tree_shallow(expansions, parent_id) ==
    LET matching == SelectSeq(expansions, LAMBDA e : e.parent_expansion_id = parent_id)
    IN  [i \in 1..Len(matching) |->
            [id |-> matching[i].expansion_id,
             subject |-> matching[i].subject,
             sub_expansions |-> <<>>]]

\* mutant: a row whose parent is not in the list is taken for a root
RECURSIVE build_tree_adopting(_, _)
build_tree_adopting(expansions, parent_id) ==
    LET ids == { expansions[i].expansion_id : i \in 1..Len(expansions) }
        matching == SelectSeq(expansions, LAMBDA e :
                        \/ e.parent_expansion_id = parent_id
                        \/ parent_id = NULL /\ e.parent_expansion_id \notin ids)
    IN  [i \in 1..Len(matching) |->
            [id |-> matching[i].expansion_id,
             subject |-> matching[i].subject,
             sub_expansions |-> build_tree_adopting(expansions, matching[i].expansion_id)]]

\* get_artwork_expansions.build_tree (the rows carry no timestamp here, so a
\* node has no created_at)
RECURSIVE build_tree(_, _)
build_tree(expansions, parent_id) ==
    LET matching == SelectSeq(expansions, LAMBDA e : e.parent_expansion_id = parent_id)
    IN  [i \in 1..Len(matching) |->
            [id |-> matching[i].expansion_id,
             subject |-> matching[i].subject,
             sub_expansions |-> build_tree(expansions, matching[i].expansion_id)]]

\* get_artwork_expansions: the query, then the tree (or [] when there are no
\* rows), as a 200 response
get_artwork_expansions(artwork_id) ==
    /\ call.pc = "idle"
    /\ LET c == [IdleCall EXCEPT !.op = "get_artwork_expansions",
                                 !.artwork_id = artwork_id,
                                 !.before = Tables]
           all_expansions == get_all_expansions_with_hierarchy(subject_expansions, artwork_id)
       IN  \/ call' = End(Log(c, "get_all_expansions_with_hierarchy", <<artwork_id>>, "raise"),
                          "PersistenceError", NULL)
           \/ IF all_expansions = <<>>
              THEN call' = End([Log(c, "get_all_expansions_with_hierarchy", <<artwork_id>>, "none")
                                  EXCEPT !.content = <<>>], "200", NULL)
              ELSE call' = End([Log(c, "get_all_expansions_with_hierarchy", <<artwork_id>>, "row")
                                  EXCEPT !.content = build_tree(all_expansions, NULL)],
                               "200", NULL)
    /\ UNCHANGED <<artworks, user_profiles, user_artworks, subject_expansions, req, _postgres_pool>>

\* an expansion id that no row of a table of MaxTreeRows rows has
TreeUnknownId == MaxTreeRows + 1

\* the tables n saves can leave: each row belongs to some artwork and names as
\* its parent nothing, an earlier row (of any artwork) or an id never issued
RECURSIVE SavedTables(_)
SavedTables(n) ==
    IF n = 0 THEN { <<>> }
    ELSE { query_save_subject_expansion(rows, n, a, <<"a">>, "<expansion/>", par) :
             rows \in SavedTables(n - 1), a \in ArtworkIds,
             par \in {NULL, TreeUnknownId} \cup (1..(n - 1)) }

InitTree ==
    /\ artworks = StoredArtworks(MaxArtworks)
    /\ user_profiles = {}
    /\ user_artworks = {}
    /\ \E n \in 0..MaxTreeRows : subject_expansions \in SavedTables(n)
    /\ req = [p \in Procs |-> IdleRequest]
    /\ call = IdleCall
    /\ _postgres_pool = NULL

\* an artwork id that no artwork has
UnknownArtworkId == uuid4(MaxArtworks + 1)

NextTree ==
    \/ \E artwork_id \in ArtworkIds \cup {UnknownArtworkId} :
          get_artwork_expansions(artwork_id)
    \/ ClientReturn

SpecTree == InitTree /\ [][NextTree]_vars

\* ------------------------------------------------------------------
\* The explain, retrieve and list endpoints, step by step, for one client.
ArtworkNames == { <<"n">> }

\* what the AI service may return for an explanation: markup or anything else
AiExplanationBodies == { "<artwork/>", "not markup" }

\* queries.ensure_user_profile: an idempotent upsert
query_ensure_user_profile(profiles, user_id) == profiles \cup {user_id}

\* queries.save_artwork_explanation: no artwork_name is among the parameters
\* the repository hands over, so the row has none
query_save_artwork_explanation(table, artwork_id, explanation_xml, image_path, creator_user_id) ==
    [a \in DOMAIN table \cup {artwork_id} |->
        IF a = artwork_id
        THEN [artwork_id |-> artwork_id, explanation_xml |-> explanation_xml,
              image_path |-> image_path, artwork_name |-> <<>>,
              creator_user_id |-> creator_user_id]
        ELSE table[a]]

\* queries.save_user_artwork
query_save_user_artwork(rows, user_id, artwork_id) == rows \cup {<<user_id, artwork_id>>}

\* queries.get_user_saved_artworks: the user's artworks, metadata only
query_get_user_saved_artworks(table, rows, user_id) ==
    { [artwork_id |-> a, image_path |-> table[a].image_path,
       creator_user_id |-> table[a].creator_user_id] :
        a \in { b \in DOMAIN table : <<user_id, b>> \in rows } }

\* mutant: the artwork id is not generated afresh
explain_artwork_begin_fixed_id(user, artwork_name) ==
    /\ call.pc = "idle"
    /\ call' = [IdleCall EXCEPT !.op = "explain_artwork", !.pc = "ai",
                                !.user = user, !.artwork_name = artwork_name,
                                !.artwork_id = uuid4(1),
                                !.before = Tables]
    /\ UNCHANGED <<artworks, user_profiles, user_artworks, subject_expansions, req, _postgres_pool>>

\* explain_artwork, lines 49-58: a fresh artwork id, the creator
explain_artwork_begin(user, artwork_name) ==
    /\ call.pc = "idle"
    /\ call' = [IdleCall EXCEPT !.op = "explain_artwork", !.pc = "ai",
                                !.user = user, !.artwork_name = artwork_name,
                                !.artwork_id = uuid4(Cardinality(DOMAIN artworks) + 1),
                                !.before = Tables]
    /\ UNCHANGED <<artworks, user_profiles, user_artworks, subject_expansions, req, _postgres_pool>>

\* explain_artwork_from_image, lines 111-123: the image is validated, then a
\* fresh artwork id, the creator
explain_artwork_from_image_begin(user, valid) ==
    /\ call.pc = "idle"
    /\ LET c == [IdleCall EXCEPT !.op = "explain_artwork_from_image",
                                 !.user = user,
                                 !.artwork_id = uuid4(Cardinality(DOMAIN artworks) + 1),
                                 !.before = Tables]
       IN  IF valid
           THEN call' = [c EXCEPT !.pc = "upload"]
           ELSE call' = End([c EXCEPT !.artwork_id = <<>>],
                            "ValueError: Invalid image format", NULL)
    /\ UNCHANGED <<artworks, user_profiles, user_artworks, subject_expansions, req, _postgres_pool>>

\* mutant: a failed upload is ignored and the artwork is stored without image
upload_artwork_image_optional ==
    /\ call.op = "explain_artwork_from_image" /\ call.pc = "upload"
    /\ \/ call' = [Log(call, "upload_artwork_image", <<call.artwork_id>>, "ok")
                     EXCEPT !.pc = "ai", !.image_path = call.artwork_id]
       \/ call' = [Log(call, "upload_artwork_image", <<call.artwork_id>>, "raise")
                     EXCEPT !.pc = "ai"]
    /\ UNCHANGED <<artworks, user_profiles, user_artworks, subject_expansions, req, _postgres_pool>>

\* explain_artwork_from_image, lines 125-131: the image goes to storage
upload_artwork_image ==
    /\ call.op = "explain_artwork_from_image" /\ call.pc = "upload"
    /\ \/ call' = [Log(call, "upload_artwork_image", <<call.artwork_id>>, "ok")
                     EXCEPT !.pc = "ai", !.image_path = call.artwork_id]
       \/ call' = End(Log(call, "upload_artwork_image", <<call.artwork_id>>, "raise"),
                      "StorageError", NULL)
    /\ UNCHANGED <<artworks, user_profiles, user_artworks, subject_expansions, req, _postgres_pool>>

\* mutant: with a creator, the collection row is written before the artwork
explain_ai_collection_first ==
    /\ call.op \in {"explain_artwork", "explain_artwork_from_image"}
    /\ call.pc = "ai"
    /\ LET fn == IF call.op = "explain_artwork"
                 THEN "explain_artwork_by_name" ELSE "explain_artwork"
           args == IF call.op = "explain_artwork"
                   THEN <<call.artwork_name, call.artwork_id>>
                   ELSE <<call.artwork_id>>
       IN  \/ \E xml \in AiExplanationBodies :
                call' = [Log(call, fn, args, xml)
                           EXCEPT !.pc = IF call.op = "explain_artwork_from_image"
                                            /\ call.user # "anonymous"
                                         THEN "save_user_artwork" ELSE "ensure_profile",
                                  !.explanation_xml = xml]
           \/ call' = End(Log(call, fn, args, "raise"), "ExternalServiceError", NULL)
    /\ UNCHANGED <<artworks, user_profiles, user_artworks, subject_expansions, req, _postgres_pool>>

\* explain_artwork, lines 60-64, explain_artwork_from_image, lines 133-137:
\* the AI service explains the name or the image, or fails
explain_ai ==
    /\ call.op \in {"explain_artwork", "explain_artwork_from_image"}
    /\ call.pc = "ai"
    /\ LET fn == IF call.op = "explain_artwork"
                 THEN "explain_artwork_by_name" ELSE "explain_artwork"
           args == IF call.op = "explain_artwork"
                   THEN <<call.artwork_name, call.artwork_id>>
                   ELSE <<call.artwork_id>>
       IN  \/ \E xml \in AiExplanationBodies :
                call' = [Log(call, fn, args, xml)
                           EXCEPT !.pc = "ensure_profile", !.explanation_xml = xml]
           \/ call' = End(Log(call, fn, args, "raise"), "ExternalServiceError", NULL)
    /\ UNCHANGED <<artworks, user_profiles, user_artworks, subject_expansions, req, _postgres_pool>>

\* mutant: the profile of the creator is not upserted
save_artwork_explanation_profile_skipped ==
    /\ call.op \in {"explain_artwork", "explain_artwork_from_image"}
    /\ call.pc = "ensure_profile"
    /\ call' = [call EXCEPT !.pc = "insert_artwork"]
    /\ UNCHANGED <<artworks, user_profiles, user_artworks, subject_expansions, req, _postgres_pool>>

\* save_artwork_explanation, lines 90-96: with a creator, the profile upsert
save_artwork_explanation_profile ==
    /\ call.op \in {"explain_artwork", "explain_artwork_from_image"}
    /\ call.pc = "ensure_profile"
    /\ IF call.user # "anonymous"
       THEN \/ /\ user_profiles' = query_ensure_user_profile(user_profiles, call.user)
               /\ call' = [Log(call, "ensure_user_profile", <<call.user>>, "ok")
                             EXCEPT !.pc = "insert_artwork"]
            \/ /\ call' = End(Log(call, "ensure_user_profile", <<call.user>>, "raise"),
                              "PersistenceError", NULL)
               /\ UNCHANGED user_profiles
       ELSE /\ call' = [call EXCEPT !.pc = "insert_artwork"]
            /\ UNCHANGED user_profiles
    /\ UNCHANGED <<artworks, user_artworks, subject_expansions, req, _postgres_pool>>

\* save_artwork_explanation, lines 98-115: the artwork row is inserted;
\* explain_artwork then redirects (lines 74-85), explain_artwork_from_image
\* goes on to the collection when there is a creator (lines 146-157)
save_artwork_explanation_insert ==
    /\ call.op \in {"explain_artwork", "explain_artwork_from_image"}
    /\ call.pc = "insert_artwork"
    /\ LET args == <<call.artwork_id, call.explanation_xml, call.image_path, call.user>>
           c == Log(call, "save_artwork_explanation", args, "ok")
       IN  \/ /\ Cardinality(DOMAIN artworks) < MaxArtworks
              /\ artworks' = query_save_artwork_explanation(artworks, call.artwork_id,
                                 call.explanation_xml, call.image_path, call.user)
              /\ IF call.op = "explain_artwork_from_image" /\ call.user # "anonymous"
                 THEN call' = [c EXCEPT !.pc = "save_user_artwork"]
                 ELSE call' = End(c, "303", call.artwork_id)
           \/ /\ call' = End(Log(call, "save_artwork_explanation", args, "raise"),
                             "PersistenceError", NULL)
              /\ UNCHANGED artworks
    /\ UNCHANGED <<user_profiles, user_artworks, subject_expansions, req, _postgres_pool>>

\* explain_artwork_from_image, lines 148-157: the artwork joins the creator's
\* collection, then the redirect
explain_save_user_artwork ==
    /\ call.op = "explain_artwork_from_image" /\ call.pc = "save_user_artwork"
    /\ LET args == <<call.user, call.artwork_id>>
       IN  \/ /\ user_artworks' = query_save_user_artwork(user_artworks, call.user,
                                                         call.artwork_id)
              /\ call' = End(Log(call, "save_user_artwork", args, "ok"),
                             "303", call.artwork_id)
           \/ /\ call' = End(Log(call, "save_user_artwork", args, "raise"),
                             "PersistenceError", NULL)
              /\ UNCHANGED user_artworks
    /\ UNCHANGED <<artworks, user_profiles, subject_expansions, req, _postgres_pool>>

\* get_artwork: the record, its image_path replaced by a URL, or 404
get_artwork(artwork_id) ==
    /\ call.pc = "idle"
    /\ LET c == Log([IdleCall EXCEPT !.op = "get_artwork", !.artwork_id = artwork_id,
                                     !.before = Tables],
                    "get_artwork_explanation", <<artwork_id>>, "ok")
           artwork_record == get_artwork_explanation(artworks, artwork_id)
       IN  IF artwork_record = <<>>
           THEN call' = End(c, "404", NULL)
           ELSE IF artwork_record[1].image_path # <<>>
           THEN call' = End([c EXCEPT !.content =
                               <<[artwork_id |-> artwork_record[1].artwork_id,
                                  explanation_xml |-> artwork_record[1].explanation_xml,
                                  creator_user_id |-> artwork_record[1].creator_user_id,
                                  image_url |-> <<"url", artwork_record[1].image_path>>]>>],
                            "200", NULL)
           ELSE call' = End([c EXCEPT !.content = artwork_record], "200", NULL)
    /\ UNCHANGED <<artworks, user_profiles, user_artworks, subject_expansions, req, _postgres_pool>>

\* get_user_artworks: the user's collection, image paths replaced by URLs
get_user_artworks(user_id) ==
    /\ call.pc = "idle"
    /\ LET c == Log([IdleCall EXCEPT !.op = "get_user_artworks", !.user = user_id,
                                     !.before = Tables],
                    "get_user_saved_artworks", <<user_id>>, "ok")
           saved_artworks == query_get_user_saved_artworks(artworks, user_artworks, user_id)
       IN  call' = End([c EXCEPT !.content =
                          { IF artwork.image_path # <<>>
                            THEN [artwork_id |-> artwork.artwork_id,
                                  creator_user_id |-> artwork.creator_user_id,
                                  image_url |-> <<"url", artwork.image_path>>]
                            ELSE artwork : artwork \in saved_artworks }],
                       "200", NULL)
    /\ UNCHANGED <<artworks, user_profiles, user_artworks, subject_expansions, req, _postgres_pool>>

NextClient ==
    \/ \E user \in Users, artwork_name \in ArtworkNames :
          explain_artwork_begin(user, artwork_name)
    \/ \E user \in Users, valid \in BOOLEAN :
          explain_artwork_from_image_begin(user, valid)
    \/ upload_artwork_image
    \/ explain_ai
    \/ save_artwork_explanation_profile
    \/ save_artwork_explanation_insert
    \/ explain_save_user_artwork
    \/ \E artwork_id \in ArtworkIds : get_artwork(artwork_id)
    \/ \E user_id \in Users \ {"anonymous"} : get_user_artworks(user_id)
    \/ expand_subject_validate(uuid4(1), <<"a">>, NULL)
    \/ expand_subject_get_cached
    \/ expand_subject_get_artwork
    \/ expand_subject_ai
    \/ save_subject_expansion_insert
    \/ \E visible \in BOOLEAN : save_subject_expansion_reread(visible)
    \/ ClientReturn

SpecClient == Init /\ [][NextClient]_vars

\* ------------------------------------------------------------------
\* Optional authentication (middleware/auth.py, dependencies/auth.py) in front
\* of every route of api_router.  headers.get gives None (<<>>) or the value
\* (<<v>>); a value is the empty string (<<>>) or <<"Bearer", token>>.  A token
\* is verified when its signature, expiry and structure pass Token.decode.
Routes == { "get_artwork", "get_artwork_image", "get_expansion", "get_user_artworks", "get_artwork_expansions", "get_popular_artworks", "explain_artwork", "explain_artwork_from_image", "expand_subject" }

Subs == { "", "u1", "u2" }

Tokens == [verified : BOOLEAN, sub : Subs]

AuthHeaders == { <<>>, << <<>> >> } \cup { << <<"Bearer", token>> >> : token \in Tokens }

\* _retrieve_user: token.sub if token.sub else None
_retrieve_user(token) == IF token.sub # "" THEN <<token.sub>> ELSE <<>>

\* mutant: every request is passed on as if it had no header
AuthMiddleware_call_pass(route, auth_header) ==
    /\ call.pc = "idle"
    /\ call' = [IdleCall EXCEPT !.op = route, !.auth_header = auth_header,
                                !.before = Tables, !.pc = "dependencies",
                                !.scope_user = <<>>]
    /\ UNCHANGED <<artworks, user_profiles, user_artworks, subject_expansions, req, _postgres_pool>>

\* AuthMiddleware.__call__: "if not auth_header" passes the request on with
\* scope["user"] = None; any other header goes to the parent class
AuthMiddleware_call(route, auth_header) ==
    /\ call.pc = "idle"
    /\ LET c == [IdleCall EXCEPT !.op = route, !.auth_header = auth_header,
                                 !.before = Tables]
       IN  IF auth_header = <<>> \/ auth_header[1] = <<>>
           THEN call' = [c EXCEPT !.pc = "dependencies", !.scope_user = <<>>]
           ELSE call' = [c EXCEPT !.pc = "authenticate_request"]
    /\ UNCHANGED <<artworks, user_profiles, user_artworks, subject_expansions, req, _postgres_pool>>

\* super().__call__ (litestar's JWTAuthenticationMiddleware): the token is
\* decoded and the user retrieved; a token that does not verify, or no user,
\* raises NotAuthorizedException (401) and the handler is not reached
JWTAuthenticationMiddleware_call ==
    /\ call.pc = "authenticate_request"
    /\ LET token == call.auth_header[1][2]
           user == _retrieve_user(token)
       IN  IF ~token.verified
           THEN call' = End(Log(call, "authenticate_request", <<>>, "raise"),
                            "NotAuthorizedException", NULL)
           ELSE IF user = <<>>
           THEN call' = End(Log(call, "retrieve_user_handler", <<>>, "none"),
                            "NotAuthorizedException", NULL)
           ELSE call' = [Log(call, "retrieve_user_handler", <<>>, "ok")
                           EXCEPT !.pc = "dependencies", !.scope_user = user]
    /\ UNCHANGED <<artworks, user_profiles, user_artworks, subject_expansions, req, _postgres_pool>>

\* get_authenticated_user: request.user wrapped in AuthenticatedUser, or None;
\* the route handler then runs with it
get_authenticated_user ==
    /\ call.pc = "dependencies"
    /\ LET user_id == call.scope_user
       IN  IF user_id # <<>> /\ user_id[1] # ""
           THEN call' = End([call EXCEPT !.user = user_id[1]], "handler", NULL)
           ELSE call' = End([call EXCEPT !.user = "anonymous"], "handler", NULL)
    /\ UNCHANGED <<artworks, user_profiles, user_artworks, subject_expansions, req, _postgres_pool>>

NextAuth ==
    \/ \E route \in Routes, auth_header \in AuthHeaders :
          AuthMiddleware_call(route, auth_header)
    \/ JWTAuthenticationMiddleware_call
    \/ get_authenticated_user
    \/ ClientReturn

SpecAuth == Init /\ [][NextAuth]_vars

\* ------------------------------------------------------------------
\* The expansion endpoints together: expand_subject step by step, and the
\* three reads of one client (get_expansion, get_artwork_expansions,
\* get_artwork) between its requests.
get_expansion_call(expansion_id) ==
    /\ call.pc = "idle"
    /\ LET c == [IdleCall EXCEPT !.op = "get_expansion", !.expansion_id = expansion_id,
                                 !.before = Tables]
           response == get_expansion(subject_expansions, expansion_id)
       IN  \/ call' = End(Log(c, "get_subject_expansion", <<expansion_id>>, "raise"),
                          "PersistenceError", NULL)
           \/ call' = End([Log(c, "get_subject_expansion", <<expansion_id>>, "ok")
                             EXCEPT !.content = response.content],
                          response.status, NULL)
    /\ UNCHANGED <<artworks, user_profiles, user_artworks, subject_expansions, req, _postgres_pool>>

NextRows ==
    \/ NextExpand
    \/ \E expansion_id \in 1..(MaxExpansions + 1) : get_expansion_call(expansion_id)
    \/ \E artwork_id \in ArtworkIds : get_artwork_expansions(artwork_id)
    \/ \E artwork_id \in ArtworkIds : get_artwork(artwork_id)

SpecRows == InitExpand /\ [][NextRows]_vars

\* ------------------------------------------------------------------
\* The connection pool of the asyncpg driver (dependencies/
\* repository_provider.py).  The lifecycle calls run one after the other and
\* stop at their awaits; get_artwork_repository has no await and can run at
\* any of these points.  Pools are numbered as they are created.  Every call
\* is logged, so that what happened before a call can be told from the log.
MaxCalls == 6

\* the pools created so far
PoolsCreated == Len(SelectSeq(call.trace, LAMBDA e : e.fn = "create_pool" /\ e.outcome = "ok"))

\* initialize_database, lines 113-128: asyncpg.create_pool, whose result is
\* assigned to the global at once
initialize_database_create_pool ==
    /\ call.pc = "idle" /\ Len(call.trace) < MaxCalls
    /\ \/ /\ _postgres_pool' = PoolsCreated + 1
          /\ call' = [Log(call, "create_pool", <<PoolsCreated + 1>>, "ok")
                        EXCEPT !.pc = "schema"]
       \/ /\ call' = Log(call, "create_pool", <<>>, "raise")
          /\ UNCHANGED _postgres_pool
    /\ UNCHANGED <<artworks, user_profiles, user_artworks, subject_expansions, req>>

\* initialize_database, lines 130-139: the schema is read and executed; a
\* failure leaves the global as it is
initialize_database_schema ==
    /\ call.pc = "schema"
    /\ \/ call' = [Log(call, "initialize_database", <<_postgres_pool>>, "ok")
                     EXCEPT !.pc = "idle"]
       \/ call' = [Log(call, "initialize_database", <<_postgres_pool>>, "raise")
                     EXCEPT !.pc = "idle"]
    /\ UNCHANGED <<artworks, user_profiles, user_artworks, subject_expansions, req, _postgres_pool>>

\* shutdown_database, lines 151-153: "if _postgres_pool", then close() is
\* awaited
shutdown_database_begin ==
    /\ call.pc = "idle" /\ Len(call.trace) < MaxCalls
    /\ IF _postgres_pool # NULL
       THEN call' = [call EXCEPT !.pc = "closing"]
       ELSE call' = Log(call, "shutdown_database", <<>>, "noop")
    /\ UNCHANGED <<artworks, user_profiles, user_artworks, subject_expansions, req, _postgres_pool>>

\* shutdown_database, lines 153-154: close() returns and the global is reset,
\* or close() raises and the reset is not reached
shutdown_database_close ==
    /\ call.pc = "closing"
    /\ \/ /\ _postgres_pool' = NULL
          /\ call' = [Log(call, "close", <<_postgres_pool>>, "ok") EXCEPT !.pc = "idle"]
       \/ /\ call' = [Log(call, "close", <<_postgres_pool>>, "raise") EXCEPT !.pc = "idle"]
          /\ UNCHANGED _postgres_pool
    /\ UNCHANGED <<artworks, user_profiles, user_artworks, subject_expansions, req>>

\* mutant: the repository is built without looking at the pool
get_artwork_repository_unchecked ==
    /\ Len(call.trace) < MaxCalls
    /\ call' = Log(call, "get_artwork_repository", <<_postgres_pool>>, "ok")
    /\ UNCHANGED <<artworks, user_profiles, user_artworks, subject_expansions, req, _postgres_pool>>

\* get_artwork_repository, lines 174-183: RuntimeError without a pool,
\* otherwise a repository over the pool
get_artwork_repository ==
    /\ Len(call.trace) < MaxCalls
    /\ IF _postgres_pool = NULL
       THEN call' = Log(call, "get_artwork_repository", <<_postgres_pool>>, "RuntimeError")
       ELSE call' = Log(call, "get_artwork_repository", <<_postgres_pool>>, "ok")
    /\ UNCHANGED <<artworks, user_profiles, user_artworks, subject_expansions, req, _postgres_pool>>

NextPool ==
    \/ initialize_database_create_pool
    \/ initialize_database_schema
    \/ shutdown_database_begin
    \/ shutdown_database_close
    \/ get_artwork_repository

SpecPool == Init /\ [][NextPool]_vars

\* ------------------------------------------------------------------
\* build_tree on any flat list: rows with distinct ids 1..n whose parent is
\* null, any row of the list (itself, an earlier or a later one, so that
\* cycles occur) or an id that is not in the list.
FlatLists(n) ==
    { [i \in 1..n |->
          [expansion_id |-> i, artwork_id |-> uuid4(1), subject |-> <<"a">>,
           subject_hash |-> subject_hash(<<"a">>, parents[i]),
           expansion_xml |-> "<expansion/>", parent_expansion_id |-> parents[i]]] :
        parents \in [1..n -> {NULL, TreeUnknownId} \cup (1..n)] }

\* get_all_expansions_with_hierarchy has returned the list
InitBuildTree ==
    /\ artworks = StoredArtworks(1)
    /\ user_profiles = {}
    /\ user_artworks = {}
    /\ subject_expansions = <<>>
    /\ req = [p \in Procs |-> IdleRequest]
    /\ \E n \in 0..MaxTreeRows : \E all_expansions \in FlatLists(n) :
          call = [IdleCall EXCEPT !.op = "get_artwork_expansions", !.pc = "build_tree",
                                  !.artwork_id = uuid4(1), !.returned = all_expansions]
    /\ _postgres_pool = NULL

\* get_artwork_expansions, lines 151-183: [] for an empty list, otherwise
\* build_tree(all_expansions, None)
get_artwork_expansions_build_tree ==
    /\ call.op = "get_artwork_expansions" /\ call.pc = "build_tree"
    /\ IF call.returned = <<>>
       THEN call' = End([call EXCEPT !.content = <<>>], "200", NULL)
       ELSE call' = End([call EXCEPT !.content = build_tree(call.returned, NULL)],
                        "200", NULL)
    /\ UNCHANGED <<artworks, user_profiles, user_artworks, subject_expansions, req, _postgres_pool>>

NextBuildTree == get_artwork_expansions_build_tree

SpecBuildTree == InitBuildTree /\ [][NextBuildTree]_vars

\* ------------------------------------------------------------------
\* What the application answers when a route handler raises.  The handlers of
\* middleware/error_handler.py answer only for the exception classes the
\* application registers them for; without a handler litestar answers a
\* raised exception that is not an HTTPException with 500.
ValueErrors == { "ValueError: Subject cannot be empty", "ValueError: Artwork ID cannot be empty", "ValueError: Artwork not found", "ValueError: Invalid image format" }

RaisedErrors == ValueErrors \cup { "PersistenceError", "StorageError", "ExternalServiceError", "RuntimeError: Failed to retrieve saved expansion" }

\* Litestar(...) in app.py is given no exception_handlers: the mapping from
\* exception class to handler is empty
exception_handlers == <<>>

\* value_error_handler: 400 and an XML error message
value_error_handler(exc) ==
    [status_code |-> 400, media_type |-> "application/xml",
     content |-> <<"<error><status>error</status><message>", exc, "</message></error>">>]

\* generic_exception_handler: 500 and an XML error message
generic_exception_handler(exc) ==
    [status_code |-> 500, media_type |-> "application/xml",
     content |-> <<"<error><status>error</status><message>", exc, "</message></error>">>]

\* litestar's own answer to an exception without handler (debug=True): 500
\* and the debug page
default_exception_response(exc) ==
    [status_code |-> 500, media_type |-> "text/plain", content |-> <<exc>>]

\* the exception raised by the handler is turned into the response: the
\* handler registered for its class, or for Exception, or litestar's default
exception_response ==
    /\ call.pc = "done" /\ call.status \in RaisedErrors /\ call.response = <<>>
    /\ LET exc == call.status
           handler == IF exc \in ValueErrors /\ "ValueError" \in DOMAIN exception_handlers
                      THEN exception_handlers["ValueError"]
                      ELSE IF "Exception" \in DOMAIN exception_handlers
                      THEN exception_handlers["Exception"]
                      ELSE "default"
       IN  call' = [call EXCEPT !.response =
                      << CASE handler = "value_error_handler" -> value_error_handler(exc)
                           [] handler = "generic_exception_handler" -> generic_exception_handler(exc)
                           [] OTHER -> default_exception_response(exc) >>]
    /\ UNCHANGED <<artworks, user_profiles, user_artworks, subject_expansions, req, _postgres_pool>>

\* the handlers that raise ValueError: expand_subject with every request
\* body, and the upload of an image by an anonymous client
NextHttp ==
    \/ NextExpand
    \/ \E valid \in BOOLEAN : explain_artwork_from_image_begin("anonymous", valid)
    \/ upload_artwork_image
    \/ explain_ai
    \/ save_artwork_explanation_profile
    \/ save_artwork_explanation_insert
    \/ exception_response

SpecHttp == InitExpand /\ [][NextHttp]_vars

\* ================================================================== claims
Done303(p) == req[p].pc = "done" /\ req[p].status = "303"

SameArgs(p, q) ==
    /\ req[p].artwork_id = req[q].artwork_id
    /\ req[p].subject = req[q].subject
    /\ req[p].parent_expansion_id = req[q].parent_expansion_id

\* the cache lookup of request p answers in this step
LookupAnswers(p) == req[p].pc = "get_cached" /\ req'[p].pc # "get_cached"

TablesUnchanged ==
    /\ subject_expansions' = subject_expansions
    /\ artworks' = artworks
    /\ user_profiles' = user_profiles
    /\ user_artworks' = user_artworks

\* a string that is empty or consists of whitespace only
Blank(s) == \A i \in 1..Len(s) : s[i] \in Whitespace

ValidationErrors ==
    { "ValueError: Subject cannot be empty", "ValueError: Artwork ID cannot be empty" }

\* C1 - Cache idempotence: when a request p has completed with a redirect and
\* no other request has inserted since p's cache lookup, a request q with
\* identical arguments completes at its cache lookup with the same expansion
\* id and without any call of the AI service.
C1_CacheIdempotence ==
    [][\A p, q \in Procs :
          (/\ p # q
           /\ Done303(p) /\ req[p].isolated
           /\ LookupAnswers(q)
           /\ SameArgs(p, q))
          => (/\ req'[q].pc = "done"
              /\ req'[q].status = "303"
              /\ req'[q].location = req[p].location
              /\ req'[q].ai_calls = 0)]_vars

\* C1 witness: a miss that called the AI service once, followed by an
\* identical request answered from the cache with the same id.
C1_Witness ==
    \E p, q \in Procs :
        /\ p # q /\ Done303(p) /\ Done303(q) /\ SameArgs(p, q)
        /\ req[p].isolated /\ req[q].isolated
        /\ req[p].ai_calls = 1 /\ ~req[p].cache_hit
        /\ req[q].ai_calls = 0 /\ req[q].cache_hit
        /\ req[q].location = req[p].location

\* C2 - Cache hit leaves everything unchanged: when the lookup of a request
\* finds a record, the request completes in that step with that record's id,
\* has made no AI call and exactly one repository call, and no table changes.
C2_CacheHitUnchanged ==
    [][\A p \in Procs :
          LET cached == get_cached_subject_expansion(subject_expansions,
                            req[p].artwork_id, req[p].subject,
                            req[p].parent_expansion_id)
          IN  (LookupAnswers(p) /\ cached # <<>>)
              => (/\ req'[p].pc = "done"
                  /\ req'[p].status = "303"
                  /\ req'[p].location = cached[1].expansion_id
                  /\ req'[p].ai_calls = 0
                  /\ req'[p].repo_calls = 1
                  /\ TablesUnchanged)]_vars

\* C2 witness: a request answered from the cache while the table holds rows.
C2_Witness ==
    \E p \in Procs :
        /\ Done303(p) /\ req[p].cache_hit
        /\ req[p].ai_calls = 0
        /\ \E i \in 1..Len(subject_expansions) :
              subject_expansions[i].expansion_id = req[p].location

\* C3 - Uniqueness invariant: at most one row exists for a given
\* (artwork_id, subject_hash).
C3_Uniqueness ==
    \A i, j \in 1..Len(subject_expansions) :
        (/\ subject_expansions[i].artwork_id = subject_expansions[j].artwork_id
         /\ subject_expansions[i].subject_hash = subject_expansions[j].subject_hash)
        => i = j

\* C4 - Lookup-then-insert race: whenever two requests with identical
\* arguments both missed the cache and both completed with a redirect, each
\* called the AI service once, and their redirects name two different rows
\* that share (artwork_id, subject_hash).
C4_Race ==
    \A p, q \in Procs :
        (/\ p # q /\ Done303(p) /\ Done303(q) /\ SameArgs(p, q)
         /\ ~req[p].cache_hit /\ ~req[q].cache_hit)
        => (/\ req[p].ai_calls = 1 /\ req[q].ai_calls = 1
            /\ req[p].location # req[q].location
            /\ \E i, j \in 1..Len(subject_expansions) :
                  /\ i # j
                  /\ subject_expansions[i].expansion_id = req[p].location
                  /\ subject_expansions[j].expansion_id = req[q].location
                  /\ subject_expansions[i].artwork_id = subject_expansions[j].artwork_id
                  /\ subject_expansions[i].subject_hash = subject_expansions[j].subject_hash)

\* C4 witness: the interleaving has happened.
C4_Witness ==
    \E p, q \in Procs :
        /\ p # q /\ Done303(p) /\ Done303(q) /\ SameArgs(p, q)
        /\ ~req[p].cache_hit /\ ~req[q].cache_hit
        /\ req[p].ai_calls = 1 /\ req[q].ai_calls = 1
        /\ req[p].location # req[q].location
        /\ req[p].artwork_id \in DOMAIN artworks

\* a row of the request's artwork and parent whose subject differs from the
\* request's subject only in letter case and surrounding whitespace
VariantRows(p) ==
    { i \in 1..Len(subject_expansions) :
        /\ subject_expansions[i].artwork_id = req[p].artwork_id
        /\ subject_expansions[i].parent_expansion_id = req[p].parent_expansion_id
        /\ subject_expansions[i].subject # req[p].subject
        /\ lower(strip(subject_expansions[i].subject)) = lower(strip(req[p].subject)) }

C6_ParentIsolation ==
    /\ \A p \in Procs :
          Done303(p) =>
             \E i \in 1..Len(subject_expansions) :
                /\ subject_expansions[i].expansion_id = req[p].location
                /\ subject_expansions[i].parent_expansion_id = req[p].parent_expansion_id
    /\ \A p, q \in Procs :
          (/\ Done303(p) /\ Done303(q)
           /\ req[p].artwork_id = req[q].artwork_id
           /\ req[p].subject = req[q].subject
           /\ req[p].parent_expansion_id # req[q].parent_expansion_id)
          => /\ req[p].location # req[q].location
             /\ \A i, j \in 1..Len(subject_expansions) :
                   (/\ subject_expansions[i].expansion_id = req[p].location
                    /\ subject_expansions[j].expansion_id = req[q].location)
                   => subject_expansions[i].subject_hash # subject_expansions[j].subject_hash

\* C6 witness: the same subject expanded with no parent and under an
\* expansion X of the same artwork.
C6_Witness ==
    \E p, q \in Procs :
        /\ Done303(p) /\ Done303(q)
        /\ req[p].artwork_id = req[q].artwork_id
        /\ req[p].subject = req[q].subject
        /\ req[p].parent_expansion_id = NULL
        /\ req[q].parent_expansion_id # NULL
        /\ \E x \in 1..Len(subject_expansions) :
              /\ subject_expansions[x].expansion_id = req[q].parent_expansion_id
              /\ subject_expansions[x].artwork_id = req[q].artwork_id
        /\ req[p].location # req[q].location

\* C7 - Missing-artwork failure: a well-formed request for an artwork id that
\* has no row never advances beyond the artwork read, never calls the AI
\* service, ends with the not-found error, and no row carries that artwork id.
C7_MissingArtwork ==
    \A p \in Procs :
        (/\ req[p].pc # "idle"
         /\ ~Blank(req[p].subject) /\ ~Blank(req[p].artwork_id)
         /\ req[p].artwork_id \notin DOMAIN artworks)
        => (/\ req[p].pc \in {"get_cached", "get_artwork", "done"}
            /\ req[p].ai_calls = 0
            /\ req[p].pc = "done" => req[p].status = "ValueError: Artwork not found"
            /\ \A i \in 1..Len(subject_expansions) :
                  subject_expansions[i].artwork_id # req[p].artwork_id)

\* C7 witness: a request failed with not-found for an artwork that has no row.
C7_Witness ==
    \E p \in Procs :
        /\ req[p].pc = "done"
        /\ req[p].status = "ValueError: Artwork not found"
        /\ req[p].artwork_id \notin DOMAIN artworks
        /\ req[p].ai_calls = 0
        /\ req[p].repo_calls = 2

\* C8 - Empty-input rejection: a request whose subject or artwork id is empty
\* or whitespace only ends, in the step that receives it, with a validation
\* error, no repository call and no AI call, and no table changes.
C8_EmptyInput ==
    [][\A p \in Procs :
          (/\ req[p].pc = "idle" /\ req'[p].pc # "idle"
           /\ (Blank(req'[p].subject) \/ Blank(req'[p].artwork_id)))
          => (/\ req'[p].pc = "done"
              /\ req'[p].status \in ValidationErrors
              /\ req'[p].repo_calls = 0
              /\ req'[p].ai_calls = 0
              /\ TablesUnchanged)]_vars

\* C8 witness: whitespace-only subject and whitespace-only artwork id rejected
\* while the tables hold data.
C8_Witness ==
    /\ Len(subject_expansions) > 0
    /\ \E p, q \in Procs :
          /\ req[p].pc = "done" /\ req[p].subject = <<" ">>
          /\ req[p].status = "ValueError: Subject cannot be empty"
          /\ req[q].pc = "done" /\ req[q].artwork_id = <<" ">>
          /\ req[q].status = "ValueError: Artwork ID cannot be empty"
          /\ req[p].repo_calls = 0 /\ req[q].repo_calls = 0

\* C9 - Parent-linkage invariant: every row with a non-null parent references
\* an existing row of the same artwork.
C9_ParentLinkage ==
    \A i \in 1..Len(subject_expansions) :
        subject_expansions[i].parent_expansion_id # NULL
        => \E j \in 1..Len(subject_expansions) :
              /\ subject_expansions[j].expansion_id = subject_expansions[i].parent_expansion_id
              /\ subject_expansions[j].artwork_id = subject_expansions[i].artwork_id

\* the rows reached from row i by n or fewer parent links inside its artwork
RECURSIVE ReachesRoot(_, _)
ReachesRoot(i, n) ==
    IF subject_expansions[i].parent_expansion_id = NULL THEN TRUE
    ELSE IF n = 0 THEN FALSE
    ELSE \E j \in 1..Len(subject_expansions) :
            /\ subject_expansions[j].expansion_id = subject_expansions[i].parent_expansion_id
            /\ subject_expansions[j].artwork_id = subject_expansions[i].artwork_id
            /\ ReachesRoot(j, n - 1)

\* C10 - Forest invariant: from every row, following parent links among the
\* rows of its artwork reaches a null-parent row in finitely many steps.
C10_Forest ==
    \A i \in 1..Len(subject_expansions) : ReachesRoot(i, Len(subject_expansions))

\* ---------------------------------------------- claims on the sequential client
\* the expand_subject request of the client has ended
ExpandDone == call.op = "expand_subject" /\ call.pc = "done"

\* ... with a redirect to a row that this request saved
SavedDone == ExpandDone /\ call.status = "303" /\ Calls("save_subject_expansion") = 1

\* the entries of the request's log, by name
TraceNames == [i \in 1..Len(call.trace) |-> call.trace[i].fn]

\* the rows with the given expansion id
RowsWithId(expansion_id) ==
    { i \in 1..Len(subject_expansions) :
        subject_expansions[i].expansion_id = expansion_id }

\* C11 - Save round-trip: the record save_subject_expansion returned is what
\* get_subject_expansion answers for its id afterwards, its artwork_id,
\* subject, expansion_xml and parent_expansion_id are the arguments and its
\* subject_hash is not null; and every stored row is what
\* get_subject_expansion answers for its id.
C11_SaveRoundTrip ==
    /\ SavedDone =>
          /\ Len(call.returned) = 1
          /\ get_subject_expansion(subject_expansions, call.returned[1].expansion_id)
                = call.returned
          /\ call.returned[1].artwork_id = call.artwork_id
          /\ call.returned[1].subject = call.subject
          /\ call.returned[1].expansion_xml = call.expansion_xml
          /\ call.returned[1].parent_expansion_id = call.parent_expansion_id
          /\ call.returned[1].subject_hash # <<>>
    /\ \A i \in 1..Len(subject_expansions) :
          get_subject_expansion(subject_expansions, subject_expansions[i].expansion_id)
             = <<subject_expansions[i]>>

\* C11 witness: the second save of the same arguments has returned its own
\* row, with a subject that is stored as written.
C11_Witness ==
    /\ SavedDone
    /\ Len(subject_expansions) = 2
    /\ call.returned = <<subject_expansions[2]>>
    /\ call.subject = <<" ", "A", " ">>
    /\ call.returned[1].subject = <<" ", "A", " ">>
    /\ call.parent_expansion_id = 1

\* C13 - No partial failure: when expand_subject (and with it
\* save_subject_expansion) has ended in an error, the rows of
\* subject_expansions are the rows there were before the request.
C13_NoPartialFailure ==
    (ExpandDone /\ call.status # "303") => subject_expansions = call.before.subject_expansions

\* C17 - Cache-miss path: a request that missed and redirected has called, in
\* this order, the cache lookup, the artwork read, the AI service once with
\* the artwork's stored explanation and the request's subject, and the save
\* once; the saved row carries the request's artwork_id, subject and parent
\* and the body the AI service returned, whatever it is.
C17_CacheMissPath ==
    SavedDone =>
        /\ TraceNames = << "get_cached_subject_expansion", "get_artwork_explanation",
                           "expand_subject", "save_subject_expansion",
                           "get_subject_expansion" >>
        /\ call.trace[3].args =
              << call.artwork_id, artworks[call.artwork_id].explanation_xml, call.subject >>
        /\ \E i \in RowsWithId(call.location) :
              /\ RowsWithId(call.location) = {i}
              /\ subject_expansions[i].artwork_id = call.artwork_id
              /\ subject_expansions[i].subject = call.subject
              /\ subject_expansions[i].parent_expansion_id = call.parent_expansion_id
              /\ subject_expansions[i].expansion_xml = call.trace[3].outcome

\* C17 witness: a body that is not markup has been stored for the second
\* artwork, whose explanation was the input of the AI call.
C17_Witness ==
    /\ SavedDone
    /\ call.artwork_id = uuid4(2)
    /\ call.trace[3].args[2] = explanation_of(2)
    /\ call.trace[3].outcome = "not markup"
    /\ \E i \in RowsWithId(call.location) :
          subject_expansions[i].expansion_xml = "not markup"

\* C18 - No retry on external failure: when the AI call has failed the
\* request ends with that failure, the AI service was called exactly once,
\* the save was never called and no row was added.
C18_NoRetry ==
    /\ (ExpandDone /\ Calls("expand_subject") > 0
           /\ call.trace[Len(call.trace)].fn = "expand_subject"
           /\ call.trace[Len(call.trace)].outcome = "raise")
       => call.status = "ExternalServiceError"
    /\ (call.op = "expand_subject"
           /\ \E i \in 1..Len(call.trace) :
                 call.trace[i].fn = "expand_subject" /\ call.trace[i].outcome = "raise")
       => /\ ExpandDone
          /\ call.status = "ExternalServiceError"
          /\ Calls("expand_subject") = 1
          /\ Calls("save_subject_expansion") = 0
          /\ call.returned = <<>>
          /\ subject_expansions = call.before.subject_expansions

\* C18 witness: a request for an existing artwork whose AI call failed,
\* while the table holds a row.
C18_Witness ==
    /\ ExpandDone
    /\ call.status = "ExternalServiceError"
    /\ call.artwork_id \in DOMAIN artworks
    /\ Calls("expand_subject") = 1
    /\ Len(subject_expansions) = 1

\* C19 - Post-insert read failure is fatal: when the re-read after the
\* insert has found no row, the request has ended with the internal error
\* and without a record, after exactly one insert and one read.
C19_RereadFatal ==
    (call.op = "expand_subject"
        /\ \E i \in 1..Len(call.trace) :
              call.trace[i].fn = "get_subject_expansion" /\ call.trace[i].outcome = "none")
    => /\ ExpandDone
       /\ call.status = "RuntimeError: Failed to retrieve saved expansion"
       /\ call.returned = <<>>
       /\ call.location = NULL
       /\ Calls("save_subject_expansion") = 1
       /\ Calls("get_subject_expansion") = 1

\* C19 witness: the request ended with the internal error after its insert.
C19_Witness ==
    /\ ExpandDone
    /\ call.status = "RuntimeError: Failed to retrieve saved expansion"
    /\ Calls("save_subject_expansion") = 1
    /\ call.trace[Len(call.trace)].outcome = "none"

\* ---------------------------------------------- claims on the expansion tree
TreeDone ==
    call.op = "get_artwork_expansions" /\ call.pc = "done" /\ call.status = "200"

\* the nodes of a forest, at every depth
RECURSIVE TreeNodes(_)
TreeNodes(children) ==
    UNION { {children[i]} \cup TreeNodes(children[i].sub_expansions) :
              i \in 1..Len(children) }

\* the ids of a list of nodes
NodeIds(children) == { children[i].id : i \in 1..Len(children) }

\* the ids of the rows of the list whose parent is parent_id
ChildRows(expansions, parent_id) ==
    { expansions[i].expansion_id :
        i \in { j \in 1..Len(expansions) : expansions[j].parent_expansion_id = parent_id } }

\* C12 - Tree reconstruction: in the response for an artwork the roots are
\* exactly the rows of the artwork with null parent, the sub_expansions of
\* every node are exactly the rows whose parent is that node's id, no row
\* appears twice among siblings, and a node carries its row's subject.
C12_TreeReconstruction ==
    TreeDone =>
        LET flat == get_all_expansions_with_hierarchy(subject_expansions, call.artwork_id)
        IN  /\ NodeIds(call.content) = ChildRows(flat, NULL)
            /\ Len(call.content) = Cardinality(ChildRows(flat, NULL))
            /\ \A node \in TreeNodes(call.content) :
                  /\ NodeIds(node.sub_expansions) = ChildRows(flat, node.id)
                  /\ Len(node.sub_expansions) = Cardinality(ChildRows(flat, node.id))
                  /\ \E i \in 1..Len(flat) :
                        /\ flat[i].expansion_id = node.id
                        /\ flat[i].subject = node.subject

\* the node of an expansion without sub-expansions
Leaf(id) == [id |-> id, subject |-> <<"a">>, sub_expansions |-> <<>>]

\* C12 witness: five expansions of one artwork, 3 under 2, 2 under 1, and 1,
\* 4, 5 roots: three roots, 1 has the single child 2, 2 the single child 3.
C12_Witness ==
    /\ TreeDone
    /\ Len(subject_expansions) = 5
    /\ \A i \in 1..5 : subject_expansions[i].artwork_id = call.artwork_id
    /\ subject_expansions[3].parent_expansion_id = 2
    /\ subject_expansions[2].parent_expansion_id = 1
    /\ \A i \in {1, 4, 5} : subject_expansions[i].parent_expansion_id = NULL
    /\ call.content =
          << [id |-> 1, subject |-> <<"a">>,
              sub_expansions |->
                 << [id |-> 2, subject |-> <<"a">>, sub_expansions |-> <<Leaf(3)>>] >>],
             Leaf(4), Leaf(5) >>

\* ---------------------------------------------- claims on the explain endpoints
ExplainOps == {"explain_artwork", "explain_artwork_from_image"}

\* an explain request has ended with its redirect
ExplainDone303 == call.op \in ExplainOps /\ call.pc = "done" /\ call.status = "303"

C15_ProfileBeforeArtwork ==
    /\ \A a \in DOMAIN artworks :
          artworks[a].creator_user_id # "anonymous"
          => artworks[a].creator_user_id \in user_profiles
    /\ (call.op \in ExplainOps /\ call.user # "anonymous")
       => \A i \in 1..Len(call.trace) :
             call.trace[i].fn = "save_artwork_explanation"
             => /\ i > 1
                /\ call.trace[i - 1].fn = "ensure_user_profile"
                /\ call.trace[i - 1].outcome = "ok"
                /\ call.user \in user_profiles
    /\ (call.op \in ExplainOps /\ call.user = "anonymous")
       => /\ Calls("ensure_user_profile") = 0
          /\ user_profiles = call.before.user_profiles

\* C15 witness: a creator's artwork and an anonymous one have been saved;
\* the anonymous request is the one that just ended.
C15_Witness ==
    /\ ExplainDone303 /\ call.user = "anonymous"
    /\ Calls("save_artwork_explanation") = 1
    /\ user_profiles = {"u1"}
    /\ \E a \in DOMAIN artworks : artworks[a].creator_user_id = "u1"
    /\ artworks[call.location].creator_user_id = "anonymous"

\* C16 - Artwork immutability: no step of an explain, expand, retrieve or
\* list request changes or removes an artwork row, and the artworks table
\* changes only by an explain request adding one row under an id that no
\* row had.
C16_ArtworkImmutability ==
    [][/\ \A a \in DOMAIN artworks :
             a \in DOMAIN artworks' /\ artworks'[a] = artworks[a]
       /\ artworks' # artworks
          => /\ call.op \in ExplainOps
             /\ call.artwork_id \notin DOMAIN artworks
             /\ DOMAIN artworks' = DOMAIN artworks \cup {call.artwork_id}]_vars

\* C16 witness: a second artwork has been created by name while the first
\* has an expansion and is in a collection.
C16_Witness ==
    /\ ExplainDone303 /\ call.op = "explain_artwork"
    /\ call.location = uuid4(2)
    /\ DOMAIN artworks = { uuid4(1), uuid4(2) }
    /\ Len(subject_expansions) > 0
    /\ user_artworks # {}

ReachedHandler == call.op \in Routes /\ call.pc = "done" /\ call.status = "handler"

\* the header's token, for a header with a non-empty value
HeaderToken == call.auth_header[1][2]

C22_ExpansionsOr404 ==
    (call.op = "get_artwork_expansions" /\ call.pc = "done"
        /\ call.status # "PersistenceError")
    => IF call.artwork_id \in DOMAIN artworks
       THEN /\ call.status = "200"
            /\ call.content = build_tree(get_all_expansions_with_hierarchy(subject_expansions, call.artwork_id), NULL)
       ELSE call.status = "404"

\* ---------------------------------------------- claims on redirects and rows
\* C23 - Redirect target exists: as long as a request that was answered 303
\* (hit or miss) is remembered, whatever the other requests do meanwhile,
\* get_expansion of the id in its Location finds a record (200, not 404)
\* whose artwork_id and parent_expansion_id are those of the request.
C23_RedirectTargetExists ==
    \A p \in Procs :
        Done303(p) =>
            LET response == get_expansion(subject_expansions, req[p].location)
            IN  /\ response.status = "200"
                /\ response.content[1].expansion_id = req[p].location
                /\ response.content[1].artwork_id = req[p].artwork_id
                /\ response.content[1].parent_expansion_id = req[p].parent_expansion_id

\* C23 witness: a hit and a miss are both answered, the miss under a parent,
\* and the hit was answered with a row older than the row of the miss.
C23_Witness ==
    \E p, q \in Procs :
        /\ Done303(p) /\ req[p].cache_hit
        /\ Done303(q) /\ ~req[q].cache_hit
        /\ req[q].parent_expansion_id # NULL
        /\ req[p].location < req[q].location

\* C25 - Expansion immutability and fresh identifiers: no step of
\* expand_subject (hit or miss), get_expansion, get_artwork_expansions or
\* get_artwork removes a row of subject_expansions or changes one of its
\* fields; the table only grows, and a row that is added has an expansion id
\* that no other row has.
C25_ExpansionImmutability ==
    [][/\ Len(subject_expansions') >= Len(subject_expansions)
       /\ \A i \in 1..Len(subject_expansions) :
             subject_expansions'[i] = subject_expansions[i]
       /\ \A i \in (Len(subject_expansions) + 1)..Len(subject_expansions') :
             \A j \in 1..Len(subject_expansions') :
                j # i => subject_expansions'[j].expansion_id # subject_expansions'[i].expansion_id
      ]_vars

\* C25 witness: two rows were saved under different ids, and a later
\* get_expansion has returned the first of them as it was inserted.
C25_Witness ==
    /\ Len(subject_expansions) = 2
    /\ subject_expansions[1].expansion_id # subject_expansions[2].expansion_id
    /\ call.op = "get_expansion" /\ call.pc = "done" /\ call.status = "200"
    /\ call.content = <<subject_expansions[1]>>

\* C26 - Expansion-to-artwork referential invariant: in every state reached
\* through expand_subject requests, concurrent ones included, the artwork_id
\* of every row of subject_expansions is the id of an existing artwork.
C26_ExpansionArtworkExists ==
    \A i \in 1..Len(subject_expansions) :
        subject_expansions[i].artwork_id \in DOMAIN artworks

\* C26 witness: expansions of two artworks are stored, and a request for an
\* artwork that did not exist when it was looked up was refused.
C26_Witness ==
    /\ Len(subject_expansions) = 2
    /\ subject_expansions[1].artwork_id # subject_expansions[2].artwork_id
    /\ \E p \in Procs :
          req[p].pc = "done" /\ req[p].status = "ValueError: Artwork not found"

\* ---------------------------------------------- claims on the connection pool
\* the log entries before entry i that assigned the global
Assignments(i) ==
    { j \in 1..(i - 1) :
        \/ call.trace[j].fn = "create_pool" /\ call.trace[j].outcome = "ok"
        \/ call.trace[j].fn = "close" /\ call.trace[j].outcome = "ok" }

\* the pool the log says the global held when entry i was made
LoggedPool(i) ==
    IF Assignments(i) = {} THEN NULL
    ELSE LET j == CHOOSE k \in Assignments(i) : \A l \in Assignments(i) : l <= k
         IN  IF call.trace[j].fn = "create_pool" THEN call.trace[j].args[1] ELSE NULL

\* before entry i an initialize_database completed and no shutdown_database
\* has closed the pool since
InitializedAt(i) ==
    \E j \in 1..(i - 1) :
        /\ call.trace[j].fn = "initialize_database" /\ call.trace[j].outcome = "ok"
        /\ \A k \in (j + 1)..(i - 1) : call.trace[k].fn # "close"

Entries(fn) == { i \in 1..Len(call.trace) : call.trace[i].fn = fn }

\* C24 as stated: get_artwork_repository succeeds exactly when
\* initialize_database has completed and shutdown_database has not run since;
\* shutdown_database closes a pool at most once, leaves the global None, and
\* does nothing when there is no pool
C24_PoolLifecycle_AsStated ==
    /\ \A i \in Entries("get_artwork_repository") :
          (call.trace[i].outcome = "ok") <=> InitializedAt(i)
    /\ \A i \in Entries("close") :
          /\ \A j \in Entries("close") :
                call.trace[j].args = call.trace[i].args => j = i
          /\ LoggedPool(i + 1) = NULL
    /\ \A i \in Entries("shutdown_database") : LoggedPool(i) = NULL

\* C24 - Connection-pool lifecycle: get_artwork_repository succeeds exactly
\* when the global holds a pool, that is after initialize_database has
\* created one (whether or not its schema step has completed or failed) and
\* no shutdown_database has completed since, and raises RuntimeError
\* otherwise; shutdown_database calls close() only on the pool the global
\* holds, close() returns at most once per pool and the global is then None,
\* a close() that raises leaves the global as it was, and shutdown_database
\* calls nothing when the global is None (called again, or never initialized).
C24_PoolLifecycle ==
    /\ _postgres_pool = LoggedPool(Len(call.trace) + 1)
    /\ \A i \in Entries("get_artwork_repository") :
          /\ call.trace[i].args = <<LoggedPool(i)>>
          /\ (call.trace[i].outcome = "ok") <=> (LoggedPool(i) # NULL)
          /\ (call.trace[i].outcome = "RuntimeError") <=> (LoggedPool(i) = NULL)
    /\ \A i \in Entries("close") :
          /\ LoggedPool(i) # NULL
          /\ call.trace[i].args = <<LoggedPool(i)>>
          /\ call.trace[i].outcome = "ok" =>
                /\ LoggedPool(i + 1) = NULL
                /\ \A j \in Entries("close") :
                      (call.trace[j].args = call.trace[i].args
                          /\ call.trace[j].outcome = "ok") => j = i
          /\ call.trace[i].outcome = "raise" => LoggedPool(i + 1) = LoggedPool(i)
    /\ \A i \in Entries("shutdown_database") :
          LoggedPool(i) = NULL /\ call.trace[i].outcome = "noop"

\* C24 witness: a repository was obtained after startup, refused after the
\* shutdown, and a second shutdown did nothing.
C24_Witness ==
    /\ Len(call.trace) = 6
    /\ call.trace[2].fn = "initialize_database" /\ call.trace[2].outcome = "ok"
    /\ call.trace[3].fn = "get_artwork_repository" /\ call.trace[3].outcome = "ok"
    /\ call.trace[4].fn = "close" /\ call.trace[4].outcome = "ok"
    /\ call.trace[5].fn = "get_artwork_repository"
    /\ call.trace[5].outcome = "RuntimeError"
    /\ call.trace[6].fn = "shutdown_database"
    /\ _postgres_pool = NULL

\* ---------------------------------------------- claims on build_tree
\* following the parent links from parent_id reaches null within the list in
\* at most n steps
RECURSIVE ChainReachesNull(_, _, _)
ChainReachesNull(expansions, parent_id, n) ==
    IF parent_id = NULL THEN TRUE
    ELSE IF n = 0 THEN FALSE
    ELSE \E j \in 1..Len(expansions) :
            /\ expansions[j].expansion_id = parent_id
            /\ ChainReachesNull(expansions, expansions[j].parent_expansion_id, n - 1)

\* the number of nodes of a forest, at every depth
RECURSIVE TreeSize(_)
TreeSize(children) ==
    IF children = <<>> THEN 0
    ELSE 1 + TreeSize(Head(children).sub_expansions) + TreeSize(Tail(children))

BuildTreeDone ==
    call.op = "get_artwork_expansions" /\ call.pc = "done" /\ call.returned # <<>>

\* C27 - build_tree termination and coverage: for every flat list with
\* distinct ids, dangling and cyclic parent references included,
\* build_tree(list, None) returns a forest in which the ids are exactly those
\* of the rows whose chain of parents reaches null within the list, each of
\* them once.
C27_BuildTreeCoverage ==
    BuildTreeDone =>
        LET expansions == call.returned
            rooted == { expansions[i].expansion_id :
                          i \in { j \in 1..Len(expansions) :
                                    ChainReachesNull(expansions,
                                        expansions[j].parent_expansion_id,
                                        Len(expansions)) } }
        IN  /\ call.status = "200"
            /\ { node.id : node \in TreeNodes(call.content) } = rooted
            /\ TreeSize(call.content) = Cardinality(rooted)

\* C27 witness: a list with a chain of three rows under null (the child
\* listed before its parent), a two-row cycle and, of these five rows, only
\* the chain in the forest.
C27_Witness ==
    /\ BuildTreeDone
    /\ Len(call.returned) = 5
    /\ call.returned[1].parent_expansion_id = 2
    /\ call.returned[2].parent_expansion_id = 3
    /\ call.returned[3].parent_expansion_id = NULL
    /\ call.returned[4].parent_expansion_id = 5
    /\ call.returned[5].parent_expansion_id = 4
    /\ TreeSize(call.content) = 3

\* ---------------------------------------------- claims on explain-from-image
\* the positions of the calls of fn in the log of the request
TraceEntries(fn) == { i \in 1..Len(call.trace) : call.trace[i].fn = fn }

\* C28 - Collection rows follow artwork rows: every row of the collection
\* names an existing artwork whose creator is the row's user, never the
\* anonymous one; and within explain_artwork_from_image, save_user_artwork is
\* called only right after save_artwork_explanation has returned for the same
\* artwork, with the creator's id, and never for an anonymous request.
C28_CollectionFollowsArtwork ==
    /\ \A row \in user_artworks :
          /\ row[1] # "anonymous"
          /\ row[2] \in DOMAIN artworks
          /\ artworks[row[2]].creator_user_id = row[1]
    /\ call.op = "explain_artwork_from_image" =>
          \A i \in TraceEntries("save_user_artwork") :
              /\ call.user # "anonymous"
              /\ call.trace[i].args = <<call.user, call.artwork_id>>
              /\ i > 1
              /\ call.trace[i - 1].fn = "save_artwork_explanation"
              /\ call.trace[i - 1].outcome = "ok"
              /\ call.trace[i - 1].args[1] = call.artwork_id
              /\ call.artwork_id \in DOMAIN artworks

\* C28 witness: an authenticated upload has put its artwork into the
\* creator's collection while an anonymous artwork is in nobody's.
C28_Witness ==
    /\ call.op = "explain_artwork_from_image" /\ call.pc = "done" /\ call.status = "303"
    /\ call.user = "u1"
    /\ <<"u1", call.artwork_id>> \in user_artworks
    /\ \E a \in DOMAIN artworks :
          /\ artworks[a].creator_user_id = "anonymous"
          /\ \A row \in user_artworks : row[2] # a

\* the request met a failure of the image validation, the upload or the AI
ImageRequestFailed ==
    /\ call.op = "explain_artwork_from_image"
    /\ \/ call.status = "ValueError: Invalid image format"
       \/ \E i \in 1..Len(call.trace) :
             /\ call.trace[i].fn \in {"upload_artwork_image", "explain_artwork"}
             /\ call.trace[i].outcome = "raise"

\* C29 - Explain-from-image failure leaves the database unchanged: when the
\* image validation, the upload or the AI call has failed, the request has
\* ended with that error, without a redirect, no store call was made, and
\* the artworks and the collection are as the request found them.
C29_ImageFailureNoWrite ==
    ImageRequestFailed =>
        /\ call.pc = "done"
        /\ call.status \in {"ValueError: Invalid image format", "StorageError", "ExternalServiceError"}
        /\ call.location = NULL
        /\ Calls("save_artwork_explanation") = 0
        /\ Calls("save_user_artwork") = 0
        /\ artworks = call.before.artworks
        /\ user_artworks = call.before.user_artworks
        /\ user_profiles = call.before.user_profiles
        /\ call.artwork_id \notin DOMAIN artworks

\* C29 witness: the AI call of an authenticated upload failed after the
\* image was stored, with an artwork already in the table.
C29_Witness ==
    /\ ImageRequestFailed
    /\ call.status = "ExternalServiceError"
    /\ call.user = "u1"
    /\ call.image_path # <<>>
    /\ DOMAIN artworks # {}

\* ---------------------------------------------- claims on error responses
\* C30 - Validation errors reach the client as client-side failures: the
\* response to a ValueError raised by a route handler (empty subject, empty
\* artwork id, artwork not found, invalid image) has status 400 and an XML
\* error message, not status 500.
C30_ValueErrorIs400 ==
    (call.pc = "done" /\ call.status \in ValueErrors /\ call.response # <<>>)
    => /\ call.response[1].status_code = 400
       /\ call.response[1].media_type = "application/xml"

====
